---- MODULE Spec2Model ----
(***************************************************************************)
(* A CHIP-8 virtual machine (amanasifkhalid/chip8): the VM struct, its     *)
(* keypad, call stack, display frame buffer and byte source, the per-opcode *)
(* handlers and the frame-paced scheduler loop of VM::run.                 *)
(*                                                                         *)
(* The variable vm is the VM struct; its record fields are the struct's    *)
(* fields (display, keypad and stack are nested records, as in the code).  *)
(* Rust arrays are modelled as functions on 0..n-1.  Option<u8> is a       *)
(* sequence of length at most one.  A panic stops the program: it is the   *)
(* field vm.panicked.                                                      *)
(***************************************************************************)
EXTENDS Integers, Sequences, FiniteSets, TLC

(* ----------------------------- constants ------------------------------- *)

DISPLAY_WIDTH == 64
DISPLAY_HEIGHT == 32
MEM_SIZE == 4096
NUM_REGS == 16
REG_WIDTH == 8
ROM_START_ADDR == 512
\* A faulty quota: one instruction short
INSTR_PER_FRAME_short == 10 - 1
INSTR_PER_FRAME == 10
SPRITE_WIDTH == 8
NUM_KEYS == 16
\* A faulty window: one frame short
KEY_TIMEOUT_short == 16 - 1
KEY_TIMEOUT == 16
STACK_SIZE == 12

\* 5 bytes per hex character
FONTS ==
  << 240, 144, 144, 144, 240,   32,  96,  32,  32, 112,
     240,  16, 240, 128, 240,  240,  16, 240,  16, 240,
     144, 144, 240,  16,  16,  240, 128, 240,  16, 240,
     240, 128, 240, 144, 240,  240,  16,  32,  64,  64,
     240, 144, 240, 144, 240,  240, 144, 240,  16, 240,
     240, 144, 240, 144, 144,  224, 144, 224, 144, 224,
     240, 128, 128, 128, 240,  224, 144, 144, 144, 224,
     240, 128, 240, 128, 240,  240, 128, 240, 128, 128 >>

(* ------------------------ fixed-width arithmetic ----------------------- *)

U8 == 0..255

Min(a, b) == IF a < b THEN a ELSE b

\* 2^n for the shifts of the code
RECURSIVE Pow2(_)
Pow2(n) == IF n = 0 THEN 1 ELSE 2 * Pow2(n - 1)

\* bit i (0 = least significant) of x
Bit(x, i) == (x \div Pow2(i)) % 2

\* x & y, x | y and x ^ y on u8 / u16 values, bit by bit
RECURSIVE BitAnd(_, _)
BitAnd(x, y) ==
  IF x = 0 \/ y = 0 THEN 0
  ELSE ((x % 2) * (y % 2)) + 2 * BitAnd(x \div 2, y \div 2)

RECURSIVE BitOr(_, _)
BitOr(x, y) ==
  IF x = 0 THEN y
  ELSE IF y = 0 THEN x
  ELSE (IF (x % 2) + (y % 2) > 0 THEN 1 ELSE 0) + 2 * BitOr(x \div 2, y \div 2)

RECURSIVE BitXor(_, _)
BitXor(x, y) ==
  IF x = 0 THEN y
  ELSE IF y = 0 THEN x
  ELSE (((x % 2) + (y % 2)) % 2) + 2 * BitXor(x \div 2, y \div 2)

\* u8 shifts: bits shifted out are lost
Shl8(x, n) == (x * Pow2(n)) % 256
Shr8(x, n) == x \div Pow2(n)

\* (cond as u8)
AsU8(cond) == IF cond THEN 1 ELSE 0

(* --------------------------- the call stack ---------------------------- *)

\* Stack::new
StackNew == [mem |-> [i \in 0..(STACK_SIZE - 1) |-> 0], ptr |-> 0]

\* A faulty push: checked by the debug_assert only, as unchecked indexing would be
PushPanics_debug_only(s, dbg) == dbg /\ ~(s.ptr < STACK_SIZE)

\* Stack::push stops the program: the debug_assert of a debug build, and in
\* every build the bounds check of self.mem[self.ptr]
PushPanics(s, dbg) == (dbg /\ ~(s.ptr < STACK_SIZE)) \/ s.ptr >= STACK_SIZE

\* Stack::push when it does not panic
Push(s, val) == [mem |-> [s.mem EXCEPT ![s.ptr] = val], ptr |-> s.ptr + 1]

\* self.ptr - 1 on usize: a debug build panics on overflow, a release build
\* wraps to usize::MAX (beyond TLC's integers: any index >= STACK_SIZE fails
\* the bounds check the same way)
PopIndex(s) == IF s.ptr >= 1 THEN s.ptr - 1 ELSE 2147483647

\* Stack::pop stops the program: the debug_assert / overflow check of a debug
\* build, and in every build the bounds check of self.mem[self.ptr - 1]
PopPanics(s, dbg) == (dbg /\ s.ptr = 0) \/ PopIndex(s) >= STACK_SIZE

\* A faulty pop: the oldest entry instead of the newest
PopVal_oldest(s) == s.mem[0]

\* Stack::pop when it does not panic: the value and the stack left
PopVal(s) == s.mem[s.ptr - 1]
PopStack(s) == [s EXCEPT !.ptr = s.ptr - 1]

(* ------------------------------ the rng -------------------------------- *)

\* Rng::get_byte: the new seed, which is also the byte returned
get_byte(seed) ==
  LET s1 == BitXor(seed, Shl8(seed, 7))
      s2 == BitXor(s1, Shr8(s1, 5))
  IN  BitXor(s2, Shl8(s2, 3))

(* ------------------------------ the keypad ----------------------------- *)

None == << >>
Some(k) == << k >>

\* Keypad::new
KeypadNew ==
  [key_states |-> [k \in 0..(NUM_KEYS - 1) |-> 0],
   queued_key |-> None,
   waiting_for_input |-> FALSE,
   got_sigint |-> FALSE]

\* Keypad::decrement_key_timers
decrement_key_timers(kp) ==
  [kp EXCEPT !.key_states =
     [k \in 0..(NUM_KEYS - 1) |->
        IF kp.key_states[k] # 0 THEN kp.key_states[k] - 1 ELSE 0]]

\* What self.input.next() yields in one frame: nothing, Ctrl-C, a key that
\* KEYS maps to a keypad index, or any other key.
NoInput == [kind |-> "none", key |-> 0]
CtrlC == [kind |-> "ctrl_c", key |-> 0]
OtherKey == [kind |-> "other", key |-> 0]
KeyPress(k) == [kind |-> "key", key |-> k]

\* A faulty cycle: Ctrl-C is read and dropped
cycle_drops_ctrl_c(kp, ev) ==
  LET d == decrement_key_timers(kp)
  IN  IF ev.kind = "key"
        THEN [d EXCEPT !.key_states[ev.key] =
                          IF d.key_states[ev.key] = 0 THEN KEY_TIMEOUT
                          ELSE d.key_states[ev.key],
                       !.waiting_for_input = FALSE]
      ELSE d

\* Keypad::cycle with the event read from the terminal
cycle(kp, ev) ==
  LET d == decrement_key_timers(kp)
  IN  IF ev.kind = "ctrl_c" THEN [d EXCEPT !.got_sigint = TRUE]
      ELSE IF ev.kind = "key"
        THEN [d EXCEPT !.key_states[ev.key] =
                          IF d.key_states[ev.key] = 0 THEN KEY_TIMEOUT
                          ELSE d.key_states[ev.key],
                       !.waiting_for_input = FALSE]
      ELSE d

\* The lowest key whose timer has not been decremented yet, if any
\* (the for loop of get_input breaks at the first one)
FirstFresh(kp) ==
  LET fresh == {k \in 0..(NUM_KEYS - 1) : kp.key_states[k] = KEY_TIMEOUT}
  IN  IF fresh = {} THEN None
      ELSE Some(CHOOSE k \in fresh : \A j \in fresh : k <= j)

\* A faulty get_input: the queued key is returned while it is still held
get_input_result_no_release(kp) == kp.queued_key

\* Keypad::get_input: the value returned
get_input_result(kp) ==
  IF kp.queued_key = None THEN None
  ELSE IF kp.key_states[kp.queued_key[1]] > 0 THEN None
  ELSE kp.queued_key

\* Keypad::get_input: the keypad afterwards
get_input_keypad(kp) ==
  IF kp.queued_key = None THEN [kp EXCEPT !.queued_key = FirstFresh(kp)]
  ELSE IF kp.key_states[kp.queued_key[1]] > 0 THEN kp
  ELSE [kp EXCEPT !.queued_key = None]

\* Keypad::is_key_pressed stops the program: the debug_assert of a debug
\* build, the bounds check of key_states[key_val] in every build
KeyPanics(key_val) == ~(key_val < NUM_KEYS)

\* Keypad::is_key_pressed
is_key_pressed(kp, key_val) == kp.key_states[key_val] # 0

(* ------------------------------- the VM -------------------------------- *)

\* The fields of a decoded opcode
OpX(op) == (op \div 256) % 16     \* (opcode & 0x0F00) >> 8
OpY(op) == (op \div 16) % 16      \* (opcode & 0x00F0) >> 4
OpN(op) == op % 16                \* opcode & 0x000F
OpNN(op) == op % 256              \* opcode & 0x00FF
OpNNN(op) == op % 4096            \* opcode & 0x0FFF

\* A panic (panic!, a failed debug_assert, a failed bounds check, an
\* arithmetic overflow in a debug build) stops the program
Panic(m) == [m EXCEPT !.panicked = TRUE]

\* 00E0: clear display.  00EE: return from subroutine.
nib_0(m) ==
  IF m.opcode = 224
    THEN [m EXCEPT !.display.frame_buffer = {}]
  ELSE IF m.opcode = 238
    THEN IF PopPanics(m.stack, m.debug_assertions) THEN Panic(m)
         ELSE [m EXCEPT !.pc = PopVal(m.stack), !.stack = PopStack(m.stack)]
  ELSE Panic(m)

\* 1NNN: goto address NNN
nib_1(m) ==
  LET addr == OpNNN(m.opcode)
  IN  IF m.debug_assertions /\ ~(addr >= ROM_START_ADDR /\ addr < MEM_SIZE)
        THEN Panic(m)
      ELSE [m EXCEPT !.pc = addr]

\* 2NNN: call subroutine at address NNN
nib_2(m) ==
  IF PushPanics(m.stack, m.debug_assertions) THEN Panic(m)
  ELSE nib_1([m EXCEPT !.stack = Push(m.stack, m.pc)])

\* 3XNN: skip next instruction if Vx == NN
nib_3(m) ==
  IF m.regs[OpX(m.opcode)] = OpNN(m.opcode) THEN [m EXCEPT !.pc = m.pc + 2] ELSE m

\* 4XNN: skip next instruction if Vx != NN
nib_4(m) ==
  IF m.regs[OpX(m.opcode)] # OpNN(m.opcode) THEN [m EXCEPT !.pc = m.pc + 2] ELSE m

\* 5XY0: skip next instruction if Vx == Vy (the last nibble is not looked at)
nib_5(m) ==
  IF m.regs[OpX(m.opcode)] = m.regs[OpY(m.opcode)]
    THEN [m EXCEPT !.pc = m.pc + 2] ELSE m

\* 6XNN: Vx = NN
nib_6(m) == [m EXCEPT !.regs[OpX(m.opcode)] = OpNN(m.opcode)]

\* A faulty 7XNN: the carry goes to the flag register
nib_7_carry(m) ==
  LET sum == m.regs[OpX(m.opcode)] + OpNN(m.opcode)
  IN  [m EXCEPT !.regs = [[m.regs EXCEPT ![OpX(m.opcode)] = sum % 256]
                            EXCEPT ![15] = AsU8(sum > 255)]]

\* 7XNN: Vx += NN (wrapping_add)
nib_7(m) ==
  [m EXCEPT !.regs[OpX(m.opcode)] = (m.regs[OpX(m.opcode)] + OpNN(m.opcode)) % 256]

\* The closures of OPS in nib_8.  Each statement reads the registers as the
\* statements before it left them.
Op8XY0(m, x, y) == [m EXCEPT !.regs[x] = m.regs[y]]

Op8XY1(m, x, y) ==
  LET r1 == [m.regs EXCEPT ![x] = BitOr(m.regs[x], m.regs[y])]
  IN  [m EXCEPT !.regs = [r1 EXCEPT ![15] = 0]]

Op8XY2(m, x, y) ==
  LET r1 == [m.regs EXCEPT ![x] = BitAnd(m.regs[x], m.regs[y])]
  IN  [m EXCEPT !.regs = [r1 EXCEPT ![15] = 0]]

Op8XY3(m, x, y) ==
  LET r1 == [m.regs EXCEPT ![x] = BitXor(m.regs[x], m.regs[y])]
  IN  [m EXCEPT !.regs = [r1 EXCEPT ![15] = 0]]

Op8XY4(m, x, y) ==
  LET vx == m.regs[x]
      r1 == [m.regs EXCEPT ![x] = (vx + m.regs[y]) % 256]
  IN  [m EXCEPT !.regs = [r1 EXCEPT ![15] = AsU8(vx + r1[y] > 255)]]

Op8XY5(m, x, y) ==
  LET vx == m.regs[x]
      r1 == [m.regs EXCEPT ![x] = (vx - m.regs[y]) % 256]
  IN  [m EXCEPT !.regs = [r1 EXCEPT ![15] = AsU8(vx >= r1[y])]]

\* A faulty 8XY6: Vy is never copied to Vx
Op8XY6_modern(m, x, y) ==
  [m EXCEPT !.regs = [[m.regs EXCEPT ![x] = Shr8(m.regs[x], 1)]
                        EXCEPT ![15] = BitAnd(m.regs[x], 1)]]

Op8XY6(m, x, y) ==
  LET r0 == IF m.legacy_mode THEN [m.regs EXCEPT ![x] = m.regs[y]] ELSE m.regs
      least_sig_bit == BitAnd(r0[x], 1)
      r1 == [r0 EXCEPT ![x] = Shr8(r0[x], 1)]
  IN  [m EXCEPT !.regs = [r1 EXCEPT ![15] = least_sig_bit]]

Op8XY7(m, x, y) ==
  LET vx == m.regs[x]
      r1 == [m.regs EXCEPT ![x] = (m.regs[y] - vx) % 256]
  IN  [m EXCEPT !.regs = [r1 EXCEPT ![15] = AsU8(r1[y] >= vx)]]

Op8XYE(m, x, y) ==
  LET r0 == IF m.legacy_mode THEN [m.regs EXCEPT ![x] = m.regs[y]] ELSE m.regs
      most_sig_bit == Shr8(r0[x], REG_WIDTH - 1)
      r1 == [r0 EXCEPT ![x] = Shl8(r0[x], 1)]
  IN  [m EXCEPT !.regs = [r1 EXCEPT ![15] = most_sig_bit]]

\* 8XY[0-7, E]: set Vx via operation with Vy.  An op_index of 8 or more runs
\* the last closure (8XYE); only a debug build asserts that it is 0xE.
nib_8(m) ==
  LET x == OpX(m.opcode)
      y == OpY(m.opcode)
      op_index == OpN(m.opcode)
  IN  CASE op_index = 0 -> Op8XY0(m, x, y)
        [] op_index = 1 -> Op8XY1(m, x, y)
        [] op_index = 2 -> Op8XY2(m, x, y)
        [] op_index = 3 -> Op8XY3(m, x, y)
        [] op_index = 4 -> Op8XY4(m, x, y)
        [] op_index = 5 -> Op8XY5(m, x, y)
        [] op_index = 6 -> Op8XY6(m, x, y)
        [] op_index = 7 -> Op8XY7(m, x, y)
        [] OTHER -> IF m.debug_assertions /\ op_index # 14 THEN Panic(m)
                    ELSE Op8XYE(m, x, y)

\* 9XY0: skip next instruction if Vx != Vy (the last nibble is not looked at)
nib_9(m) ==
  IF m.regs[OpX(m.opcode)] # m.regs[OpY(m.opcode)]
    THEN [m EXCEPT !.pc = m.pc + 2] ELSE m

\* ANNN: I = NNN
nib_a(m) == [m EXCEPT !.index = OpNNN(m.opcode)]

\* BNNN: PC = V0 + NNN
nib_b(m) ==
  LET target == OpNNN(m.opcode) + m.regs[0]
  IN  IF m.debug_assertions /\ ~(target >= ROM_START_ADDR /\ target < MEM_SIZE)
        THEN Panic(m)
      ELSE [m EXCEPT !.pc = target]

\* CXNN: Vx = rand[0, 255] & NN
nib_c(m) ==
  LET rand_val == get_byte(m.rng)
  IN  [m EXCEPT !.rng = rand_val,
                !.regs[OpX(m.opcode)] = BitAnd(rand_val, OpNN(m.opcode))]

\* A faulty inner loop: a sprite pixel switches the display pixel on (OR)
\* instead of flipping it
RECURSIVE draw_cols_or(_, _, _, _, _)
draw_cols_or(d, sprite_row, row, col, end) ==
  IF col >= end THEN d
  ELSE LET d2 == IF Shr8(sprite_row, SPRITE_WIDTH - 1) = 1
                   THEN [fb |-> d.fb \cup {<<row, col>>},
                         vf |-> IF <<row, col>> \in d.fb THEN 1 ELSE d.vf]
                 ELSE d
       IN  draw_cols_or(d2, Shl8(sprite_row, 1), row, col + 1, end)

\* The inner loop of nib_d over the columns of one sprite row, from col up
\* to (not including) end.  d is [fb, vf]: the set of ON pixels <<row, col>>
\* of the frame buffer and the flag register.
RECURSIVE draw_cols(_, _, _, _, _)
draw_cols(d, sprite_row, row, col, end) ==
  IF col >= end THEN d
  ELSE LET pixel_state == Shr8(sprite_row, SPRITE_WIDTH - 1)
           d2 == IF pixel_state = 1
                   THEN IF <<row, col>> \in d.fb
                          THEN [fb |-> d.fb \ {<<row, col>>}, vf |-> 1]
                        ELSE [fb |-> d.fb \cup {<<row, col>>}, vf |-> d.vf]
                 ELSE d
       IN  draw_cols(d2, Shl8(sprite_row, 1), row, col + 1, end)

\* A faulty outer loop: the columns of a sprite row past the right edge are
\* drawn from column 0 on (the sprite wraps around)
RECURSIVE draw_rows_wrapping(_, _, _, _, _, _)
draw_rows_wrapping(m, sprite_addr, x_coord, row_offset, row, end) ==
  IF row >= end THEN m
  ELSE IF sprite_addr + row_offset >= MEM_SIZE THEN Panic(m)
  ELSE LET sprite_row == m.mem[sprite_addr + row_offset]
           past == x_coord + SPRITE_WIDTH - DISPLAY_WIDTH
           d1 == draw_cols([fb |-> m.display.frame_buffer, vf |-> m.regs[15]],
                           sprite_row, row, x_coord,
                           Min(DISPLAY_WIDTH, x_coord + SPRITE_WIDTH))
           d == IF past > 0
                  THEN draw_cols(d1, Shl8(sprite_row, SPRITE_WIDTH - past), row, 0, past)
                ELSE d1
       IN  draw_rows_wrapping([m EXCEPT !.display.frame_buffer = d.fb,
                                        !.regs[15] = d.vf],
                              sprite_addr, x_coord, row_offset + 1, row + 1, end)

\* The outer loop of nib_d over the rows, from row up to (not including)
\* end.  Reading self.mem[sprite_addr + row_offset] past the memory panics.
RECURSIVE draw_rows(_, _, _, _, _, _)
draw_rows(m, sprite_addr, x_coord, row_offset, row, end) ==
  IF row >= end THEN m
  ELSE IF sprite_addr + row_offset >= MEM_SIZE THEN Panic(m)
  ELSE LET d == draw_cols([fb |-> m.display.frame_buffer, vf |-> m.regs[15]],
                          m.mem[sprite_addr + row_offset], row, x_coord,
                          Min(DISPLAY_WIDTH, x_coord + SPRITE_WIDTH))
       IN  draw_rows([m EXCEPT !.display.frame_buffer = d.fb, !.regs[15] = d.vf],
                     sprite_addr, x_coord, row_offset + 1, row + 1, end)

\* A faulty DXYN: the flag register is not set to 0 before the rows are drawn
nib_d_keeps_flag(m) ==
  LET y_coord == m.regs[OpY(m.opcode)] % DISPLAY_HEIGHT
      m1 == draw_rows(m, m.index, m.regs[OpX(m.opcode)] % DISPLAY_WIDTH, 0,
                      y_coord, Min(DISPLAY_HEIGHT, y_coord + OpN(m.opcode)))
  IN  IF m1.panicked THEN m1 ELSE [m1 EXCEPT !.should_draw = TRUE]

\* DXYN: display sprite at [I] starting at (Vx, Vy)
nib_d(m) ==
  LET num_rows == OpN(m.opcode)
      x_coord == m.regs[OpX(m.opcode)] % DISPLAY_WIDTH
      y_coord == m.regs[OpY(m.opcode)] % DISPLAY_HEIGHT
      m0 == [m EXCEPT !.regs[15] = 0]
      m1 == draw_rows(m0, m.index, x_coord, 0, y_coord,
                      Min(DISPLAY_HEIGHT, y_coord + num_rows))
  IN  IF m1.panicked THEN m1 ELSE [m1 EXCEPT !.should_draw = TRUE]

\* EX9E: skip next instruction if key Vx is pressed
\* EXA1: skip next instruction if key Vx is not pressed
nib_e(m) ==
  LET reg_val == m.regs[OpX(m.opcode)]
      op_type == OpNN(m.opcode)
  IN  IF KeyPanics(reg_val) THEN Panic(m)
      ELSE LET is_pressed == is_key_pressed(m.keypad, reg_val)
           IN  IF op_type = 158
                 THEN [m EXCEPT !.pc = m.pc + AsU8(is_pressed) * 2]
               ELSE IF op_type = 161
                 THEN [m EXCEPT !.pc = m.pc + AsU8(~is_pressed) * 2]
               ELSE Panic(m)

\* FX0A: Vx = next key down; the instruction is looped until a key has
\* been pressed and released
OpFX0A(m, reg_num) ==
  LET key == get_input_result(m.keypad)
      m1 == [m EXCEPT !.keypad = get_input_keypad(m.keypad)]
  IN  IF key # None THEN [m1 EXCEPT !.regs[reg_num] = key[1]]
      ELSE [m1 EXCEPT !.pc = m.pc - 2]

\* FX18: sound timer = Vx; beep while sound timer > 0
OpFX18(m, reg_num) ==
  LET m1 == [m EXCEPT !.sound_timer = m.regs[reg_num]]
  IN  IF m1.sound_timer > 0 THEN [m1 EXCEPT !.beeper = "playing"] ELSE m1

\* FX1E: I += Vx on u16: a debug build panics on overflow, a release build wraps
OpFX1E(m, reg_num) ==
  LET sum == m.index + m.regs[reg_num]
  IN  IF sum > 65535 /\ m.debug_assertions THEN Panic(m)
      ELSE [m EXCEPT !.index = sum % 65536]

\* FX29: I = address of sprite in Vx.  The product is a u8: a release build
\* wraps it, a debug build asserts Vx <= 0xF first.
OpFX29(m, reg_num) ==
  IF m.debug_assertions /\ ~(m.regs[reg_num] <= 15) THEN Panic(m)
  ELSE [m EXCEPT !.index = (m.regs[reg_num] * 5) % 256]

\* A faulty FX33: the addresses wrap around at the end of memory
OpFX33_wrapping(m, reg_num) ==
  [m EXCEPT !.mem[m.index % MEM_SIZE] = m.regs[reg_num] \div 100,
            !.mem[(m.index + 1) % MEM_SIZE] = (m.regs[reg_num] \div 10) % 10,
            !.mem[(m.index + 2) % MEM_SIZE] = m.regs[reg_num] % 10]

\* FX33: mem[I..I+3] = binary-coded decimal form of Vx.  The three writes
\* are bounds-checked one by one.
OpFX33(m, reg_num) ==
  LET reg_val == m.regs[reg_num]
      index == m.index
  IN  IF m.debug_assertions /\ ~(index + 2 < MEM_SIZE) THEN Panic(m)
      ELSE IF index >= MEM_SIZE THEN Panic(m)
      ELSE IF index + 1 >= MEM_SIZE
        THEN Panic([m EXCEPT !.mem[index] = reg_val \div 100])
      ELSE IF index + 2 >= MEM_SIZE
        THEN Panic([m EXCEPT !.mem[index] = reg_val \div 100,
                             !.mem[index + 1] = (reg_val \div 10) % 10])
      ELSE [m EXCEPT !.mem[index] = reg_val \div 100,
                     !.mem[index + 1] = (reg_val \div 10) % 10,
                     !.mem[index + 2] = reg_val % 10]

\* A faulty FX55: the slice ends one short, Vx is not stored
OpFX55_one_short(m, reg_num) ==
  LET m1 == [m EXCEPT !.mem =
               [a \in 0..(MEM_SIZE - 1) |->
                  IF a >= m.index /\ a < m.index + reg_num
                    THEN m.regs[a - m.index] ELSE m.mem[a]]]
  IN  IF m.legacy_mode THEN [m1 EXCEPT !.index = m.index + reg_num + 1] ELSE m1

\* FX55: store regs V0 to Vx in memory.  The slice mem[index..index+reg_num+1]
\* is bounds-checked as a whole.
OpFX55(m, reg_num) ==
  LET index == m.index
  IN  IF m.debug_assertions /\ ~(index + reg_num < MEM_SIZE) THEN Panic(m)
      ELSE IF index + reg_num + 1 > MEM_SIZE THEN Panic(m)
      ELSE LET m1 == [m EXCEPT !.mem =
                        [a \in 0..(MEM_SIZE - 1) |->
                           IF a >= index /\ a <= index + reg_num
                             THEN m.regs[a - index] ELSE m.mem[a]]]
           IN  IF m.legacy_mode THEN [m1 EXCEPT !.index = index + reg_num + 1]
               ELSE m1

\* FX65: load regs V0 to Vx from memory
OpFX65(m, reg_num) ==
  LET index == m.index
  IN  IF m.debug_assertions /\ ~(index + reg_num < MEM_SIZE) THEN Panic(m)
      ELSE IF index + reg_num + 1 > MEM_SIZE THEN Panic(m)
      ELSE LET m1 == [m EXCEPT !.regs =
                        [r \in 0..(NUM_REGS - 1) |->
                           IF r <= reg_num THEN m.mem[index + r] ELSE m.regs[r]]]
           IN  IF m.legacy_mode THEN [m1 EXCEPT !.index = index + reg_num + 1]
               ELSE m1

\* FX__: misc instructions
nib_f(m) ==
  LET reg_num == OpX(m.opcode)
      op_type == OpNN(m.opcode)
  IN  CASE op_type = 7 -> [m EXCEPT !.regs[reg_num] = m.delay_timer]
        [] op_type = 10 -> OpFX0A(m, reg_num)
        [] op_type = 21 -> [m EXCEPT !.delay_timer = m.regs[reg_num]]
        [] op_type = 24 -> OpFX18(m, reg_num)
        [] op_type = 30 -> OpFX1E(m, reg_num)
        [] op_type = 41 -> OpFX29(m, reg_num)
        [] op_type = 51 -> OpFX33(m, reg_num)
        [] op_type = 85 -> OpFX55(m, reg_num)
        [] op_type = 101 -> OpFX65(m, reg_num)
        [] OTHER -> Panic(m)

\* OPCODE_FUNCS[op_type](self)
Dispatch(m, op_type) ==
  CASE op_type = 0 -> nib_0(m)
    [] op_type = 1 -> nib_1(m)
    [] op_type = 2 -> nib_2(m)
    [] op_type = 3 -> nib_3(m)
    [] op_type = 4 -> nib_4(m)
    [] op_type = 5 -> nib_5(m)
    [] op_type = 6 -> nib_6(m)
    [] op_type = 7 -> nib_7(m)
    [] op_type = 8 -> nib_8(m)
    [] op_type = 9 -> nib_9(m)
    [] op_type = 10 -> nib_a(m)
    [] op_type = 11 -> nib_b(m)
    [] op_type = 12 -> nib_c(m)
    [] op_type = 13 -> nib_d(m)
    [] op_type = 14 -> nib_e(m)
    [] OTHER -> nib_f(m)

\* A faulty exec_instr: the two bytes are combined little-endian
exec_instr_little_endian(m) ==
  IF m.pc >= MEM_SIZE \/ m.pc + 1 >= MEM_SIZE THEN Panic(m)
  ELSE Dispatch([m EXCEPT !.opcode = m.mem[m.pc + 1] * 256 + m.mem[m.pc],
                          !.pc = m.pc + 2],
                m.mem[m.pc + 1] \div 16)

\* VM::exec_instr: fetch two bytes at pc (each read bounds-checked), combine
\* them big-endian, advance pc by 2, dispatch on the first half-byte
exec_instr(m) ==
  IF m.pc >= MEM_SIZE \/ m.pc + 1 >= MEM_SIZE THEN Panic(m)
  ELSE LET opcode == m.mem[m.pc] * 256 + m.mem[m.pc + 1]
           op_type == m.mem[m.pc] \div 16
       IN  Dispatch([m EXCEPT !.opcode = opcode, !.pc = m.pc + 2], op_type)

\* A faulty decrement_timers: no test for zero, the u8 wraps
decrement_timers_wrapping(m) ==
  LET m1 == [m EXCEPT !.delay_timer = (m.delay_timer - 1) % 256]
      m2 == [m1 EXCEPT !.sound_timer = (m1.sound_timer - 1) % 256]
  IN  IF m2.sound_timer = 0 THEN [m2 EXCEPT !.beeper = "paused"] ELSE m2

\* VM::decrement_timers
decrement_timers(m) ==
  LET m1 == IF m.delay_timer > 0 THEN [m EXCEPT !.delay_timer = m.delay_timer - 1]
            ELSE m
  IN  IF m1.sound_timer > 0
        THEN LET m2 == [m1 EXCEPT !.sound_timer = m1.sound_timer - 1]
             IN  IF m2.sound_timer = 0 THEN [m2 EXCEPT !.beeper = "paused"] ELSE m2
      ELSE m1

\* print_state: a no-op in a release build and when debug mode is off.
\* In a debug build with debug mode on it draws the frame, prints the state
\* and blocks until 's' (step) or 'c' (continue: debug mode off) is typed.
print_state_active(m) == m.debug_assertions /\ m.debug_mode

print_state(m, typed) ==
  IF print_state_active(m)
    THEN [m EXCEPT !.display.drawn = m.display.frame_buffer,
                   !.debug_mode = IF typed = "c" THEN FALSE ELSE m.debug_mode]
  ELSE m

\* A faulty flush: the dirty flag is left set
flush_keeps_flag(m) ==
  IF m.should_draw THEN [m EXCEPT !.display.drawn = m.display.frame_buffer] ELSE m

\* The flush at the end of a frame in VM::run
flush(m) ==
  IF m.should_draw
    THEN [m EXCEPT !.should_draw = FALSE, !.display.drawn = m.display.frame_buffer]
  ELSE m

\* VM::new: fonts at [0, 80), the ROM from ROM_START_ADDR on.  A ROM that does
\* not fit panics.  drawn is what Display::draw last wrote to the terminal.
VMNew(rom, legacy_mode, debug_mode, debug_assertions, seed) ==
  [display |-> [frame_buffer |-> {}, drawn |-> {}],
   keypad |-> KeypadNew,
   mem |-> [a \in 0..(MEM_SIZE - 1) |->
              IF a < Len(FONTS) THEN FONTS[a + 1]
              ELSE IF a >= ROM_START_ADDR /\ a - ROM_START_ADDR < Len(rom)
                THEN rom[a - ROM_START_ADDR + 1]
              ELSE 0],
   regs |-> [r \in 0..(NUM_REGS - 1) |-> 0],
   index |-> 0,
   pc |-> ROM_START_ADDR,
   sound_timer |-> 0,
   delay_timer |-> 0,
   stack |-> StackNew,
   opcode |-> 0,
   rng |-> seed,
   beeper |-> "none",
   should_draw |-> FALSE,
   legacy_mode |-> legacy_mode,
   debug_mode |-> debug_mode,
   debug_assertions |-> debug_assertions,
   panicked |-> Len(rom) > MEM_SIZE - ROM_START_ADDR]

(* ------------------------------ programs ------------------------------- *)

\* A ROM file: 16-bit big-endian instructions as a sequence of bytes
RomBytes(words) ==
  [i \in 1..(2 * Len(words)) |->
     IF i % 2 = 1 THEN words[(i + 1) \div 2] \div 256 ELSE words[i \div 2] % 256]

Zeros(n) == [i \in 1..n |-> 0]

\* 0x200: V0 = 5; delay = V0; V1 = 3; sound = V1; 0x208: jump 0x208
RomTimers == << \h6005, \hF015, \h6103, \hF118, \h1208 >>

\* 0x200: V0 = 3; sound = V0; V0 = 0; sound = V0; 0x208: jump 0x208
RomSoundOff == << \h6003, \hF018, \h6000, \hF018, \h1208 >>

\* 0x200: V0 = 5; delay = V0; 8 loads (the rest of the first frame);
\* 0x214: V2 = key (FX0A); 0x216: jump 0x216
RomWait ==
  << \h6005, \hF015, \h6000, \h6000, \h6000, \h6000, \h6000, \h6000, \h6000,
     \h6000, \hF20A, \h1216 >>

\* 0x200: draw glyph 0 at (0,0) three times, then 7 loads (the first frame);
\* 0x214: clear the display; 0x216: jump 0x216
RomDraw ==
  << \hD015, \hD015, \hD015, \h6000, \h6000, \h6000, \h6000, \h6000, \h6000,
     \h6000, \h00E0, \h1216 >>

\* 0x200: jump 0x256; 0x256: call 0x300; 0x258: jump 0x258;
\* 0x300 + 4i (i < 11): call 0x300 + 4(i+1), then return; 0x32C: return
CallChain ==
  [i \in 1..23 |->
     IF i = 23 THEN \h00EE
     ELSE IF i % 2 = 1 THEN \h2000 + \h300 + 4 * ((i + 1) \div 2)
     ELSE \h00EE]

RomCalls ==
  << \h1256 >> \o Zeros(42) \o << \h2300, \h1258 >> \o Zeros(83) \o CallChain

\* 0x200: call 0x200
RomOverflow == << \h2200 >>

\* 0x200: return
RomUnderflow == << \h00EE >>

Roms ==
  { RomTimers, RomSoundOff, RomWait, RomDraw, RomCalls, RomOverflow, RomUnderflow }

\* The ROMs that read the keypad (FX0A, EX9E, EXA1) and the keys (keypad
\* indices) typed at the terminal while one of them runs; while another ROM
\* runs only Ctrl-C and unmapped keys are typed
KeypadRoms == { RomWait }
PressableKeys == {1, 10}

\* The seed Rng::new takes from the clock
Seeds == {42}

Events(keys) == {NoInput, CtrlC, OtherKey} \cup {KeyPress(k) : k \in keys}

(* --------------------------- the scheduler ----------------------------- *)

MaxTicks == 7       \* timer ticks counted after a timer is set
MaxSeenAge == 17    \* frames counted after FX0A first sees a fresh key

VARIABLES
  vm,          \* the VM struct
  phase,       \* the position in VM::run
  instr_i,     \* the counter of the for loop over 0..INSTR_PER_FRAME
  keyboard,    \* the mapped keys the user types during this run
  \* What follows records the run; the program does not read it.
  frame_log,   \* the calls made so far in the current iteration of the loop:
               \* <<"cycle", 0>>, <<"exec_instr", opcode>>,
               \* <<"decrement_timers", 0>>, and for Display::draw <<"draw", 0>>
               \* when VM::run calls it, <<"draw", 1>> when print_state does
  timer_set,   \* for each timer the value n it was last set to (0 at
               \* construction) and the ticks k since, counted up to MaxTicks
  wait_seen,   \* the keys whose hold timer an FX0A of the current wait saw at
               \* KEY_TIMEOUT, as pairs <<key, frames since, up to MaxSeenAge>>
  key_age,     \* for each key the frames since a press of it was observed
               \* while no earlier press was younger than 16 frames; 16 when
               \* there is none
  ctrl_c_read, \* Keypad::cycle has read a Ctrl-C event
  calls,       \* the return addresses of the calls not yet returned from
  origin       \* the registers, index register and frame buffer the run
               \* started from

vars ==
  << vm, phase, instr_i, keyboard, frame_log, timer_set, wait_seen, key_age,
     ctrl_c_read, calls, origin >>

record_vars ==
  << frame_log, timer_set, wait_seen, key_age, ctrl_c_read, calls, origin >>

\* What origin keeps of a VM
Origin(m) ==
  [regs |-> m.regs, index |-> m.index, frame_buffer |-> m.display.frame_buffer]

\* The ROMs that hold an instruction reading legacy_mode (8XY6, 8XYE, FX55,
\* FX65); the flag is drawn for these only
LegacyRoms == {}

\* The ROMs that are also run in step-through mode (--debug on a debug build;
\* a release build never reads the flag)
StepThroughRoms == { RomDraw, RomOverflow }

\* The instruction exec_instr fetches in state m, when the fetch succeeds
Fetches(m) == m.pc + 1 < MEM_SIZE
FetchedOp(m) == m.mem[m.pc] * 256 + m.mem[m.pc + 1]
IsFX(op, nn) == op \div 4096 = 15 /\ op % 256 = nn
Is2NNN(op) == op \div 4096 = 2
Is00EE(op) == op = 238
Is00E0(op) == op = 224

\* The program is started on one of the ROMs, from a release or a debug build
\* (debug_assertions), with or without --legacy and --debug.
Init ==
  /\ \E rom \in Roms, legacy_mode \in BOOLEAN, debug_mode \in BOOLEAN,
        debug_assertions \in BOOLEAN, seed \in Seeds :
       /\ legacy_mode => rom \in LegacyRoms
       /\ debug_mode => (debug_assertions /\ rom \in StepThroughRoms)
       /\ vm = VMNew(RomBytes(rom), legacy_mode, debug_mode, debug_assertions, seed)
       /\ keyboard = IF rom \in KeypadRoms THEN PressableKeys ELSE {}
  /\ phase = "setup"
  /\ instr_i = 0
  /\ frame_log = << >>
  /\ timer_set = [delay |-> [n |-> 0, k |-> 0], sound |-> [n |-> 0, k |-> 0]]
  /\ wait_seen = {}
  /\ key_age = [key \in 0..(NUM_KEYS - 1) |-> 16]
  /\ ctrl_c_read = FALSE
  /\ calls = << >>
  /\ origin = Origin(vm)

\* VM::run before the loop: the audio sink is created paused
RunSetup ==
  /\ phase = "setup"
  /\ ~vm.panicked
  /\ vm' = [vm EXCEPT !.beeper = "paused"]
  /\ phase' = "loop_test"
  /\ UNCHANGED << instr_i, keyboard, record_vars >>

\* while !self.keypad.got_sigint()
LoopTest ==
  /\ phase = "loop_test"
  /\ phase' = IF vm.keypad.got_sigint THEN "exited" ELSE "cycle"
  /\ frame_log' = IF vm.keypad.got_sigint THEN frame_log ELSE << >>
  /\ UNCHANGED << vm, instr_i, keyboard, timer_set, wait_seen, key_age,
                  ctrl_c_read, calls, origin >>

\* self.keypad.cycle()
KeypadCycle ==
  /\ phase = "cycle"
  /\ \E ev \in Events(keyboard) :
       /\ vm' = [vm EXCEPT !.keypad = cycle(vm.keypad, ev)]
       /\ ctrl_c_read' = (ctrl_c_read \/ ev = CtrlC)
       /\ key_age' =
            [key \in 0..(NUM_KEYS - 1) |->
               LET age == Min(key_age[key] + 1, 16)
               IN  IF ev = KeyPress(key) /\ age = 16 THEN 0 ELSE age]
  /\ wait_seen' = { << p[1], Min(p[2] + 1, MaxSeenAge) >> : p \in wait_seen }
  /\ phase' = "instr"
  /\ instr_i' = 0
  /\ frame_log' = Append(frame_log, << "cycle", 0 >>)
  /\ UNCHANGED << keyboard, timer_set, calls, origin >>

\* What an executed instruction adds to the record: m1 is the VM before
\* exec_instr, m2 after it
TimerSetAfter(m1, m2) ==
  IF ~Fetches(m1) \/ m2.panicked THEN timer_set
  ELSE IF IsFX(m2.opcode, 21)
    THEN [timer_set EXCEPT !.delay = [n |-> m1.regs[OpX(m2.opcode)], k |-> 0]]
  ELSE IF IsFX(m2.opcode, 24)
    THEN [timer_set EXCEPT !.sound = [n |-> m1.regs[OpX(m2.opcode)], k |-> 0]]
  ELSE timer_set

WaitSeenAfter(m1, m2) ==
  IF ~Fetches(m1) \/ m2.panicked \/ ~IsFX(m2.opcode, 10) THEN wait_seen
  ELSE IF m2.pc = m1.pc
    THEN wait_seen \cup
           { << key, 0 >> : key \in
               { j \in 0..(NUM_KEYS - 1) :
                   /\ m1.keypad.key_states[j] = 16
                   /\ \A p \in wait_seen : p[1] # j } }
  ELSE {}

CallsAfter(m1, m2) ==
  IF ~Fetches(m1) \/ m2.panicked THEN calls
  ELSE IF Is2NNN(m2.opcode) THEN Append(calls, m1.pc + 2)
  ELSE IF Is00EE(m2.opcode) /\ Len(calls) > 0 THEN SubSeq(calls, 1, Len(calls) - 1)
  ELSE calls

\* One iteration of the for loop: print_state, then exec_instr
LoopBody ==
  /\ phase = "instr"
  /\ instr_i < INSTR_PER_FRAME
  /\ \E typed \in {"s", "c"} :
       LET m1 == print_state(vm, typed)
           m2 == exec_instr(m1)
           log1 == IF print_state_active(vm)
                     THEN Append(frame_log, << "draw", 1 >>) ELSE frame_log
       IN  /\ vm' = m2
           /\ frame_log' = Append(log1, << "exec_instr", m2.opcode >>)
           /\ timer_set' = TimerSetAfter(m1, m2)
           /\ wait_seen' = WaitSeenAfter(m1, m2)
           /\ calls' = CallsAfter(m1, m2)
           /\ instr_i' = instr_i + 1
           /\ phase' = IF m2.panicked THEN "panicked"
                       ELSE IF instr_i + 1 < INSTR_PER_FRAME THEN "instr"
                       ELSE "decrement_timers"
  /\ UNCHANGED << keyboard, key_age, ctrl_c_read, origin >>

\* self.decrement_timers()
DecrementTimers ==
  /\ phase = "decrement_timers"
  /\ vm' = decrement_timers(vm)
  /\ phase' = "draw"
  /\ frame_log' = Append(frame_log, << "decrement_timers", 0 >>)
  /\ timer_set' = [t \in {"delay", "sound"} |->
                     [timer_set[t] EXCEPT !.k = Min(timer_set[t].k + 1, MaxTicks)]]
  /\ UNCHANGED << instr_i, keyboard, wait_seen, key_age, ctrl_c_read, calls,
                  origin >>

\* if self.should_draw { self.should_draw = false; self.display.draw(); }
Flush ==
  /\ phase = "draw"
  /\ vm' = flush(vm)
  /\ phase' = "sleep"
  /\ frame_log' = IF vm.should_draw THEN Append(frame_log, << "draw", 0 >>)
                  ELSE frame_log
  /\ UNCHANGED << instr_i, keyboard, timer_set, wait_seen, key_age, ctrl_c_read,
                  calls, origin >>

\* std::thread::sleep(wait_time): the end of the frame
Sleep ==
  /\ phase = "sleep"
  /\ phase' = "loop_test"
  /\ UNCHANGED << vm, instr_i, keyboard, record_vars >>

Next ==
  \/ RunSetup
  \/ LoopTest
  \/ KeypadCycle
  \/ LoopBody
  \/ DecrementTimers
  \/ Flush
  \/ Sleep

Spec == Init /\ [][Next]_vars

TypeOK ==
  /\ vm.pc \in 0..65535
  /\ vm.index \in 0..65535
  /\ \A r \in 0..(NUM_REGS - 1) : vm.regs[r] \in U8
  /\ vm.sound_timer \in U8
  /\ vm.delay_timer \in U8

(* ---------------------- single instructions --------------------------- *)

\* An opcode from its four half-bytes
Op(n1, x, y, n) == n1 * 4096 + x * 256 + y * 16 + n

\* The register values, register indices and immediate bytes the
\* instructions are run on
Vals == {0, 1, 3, 5, 128, 255}
RegIndices == {0, 1, 15}

\* Pairs of register indices X, Y: different, the same, and with the flag
\* register as X, as Y and as both
RegPairs == { <<0, 1>>, <<1, 1>>, <<1, 15>>, <<15, 1>>, <<15, 15>> }

\* A register file in which register r holds 255 - 16r, and one made from it
\* by storing x in register X and then y in register Y (X = Y: x stays)
BaseRegs == [r \in 0..(NUM_REGS - 1) |-> 255 - 16 * r]
RegsWith(X, x, Y, y) ==
  [r \in 0..(NUM_REGS - 1) |-> IF r = X THEN x ELSE IF r = Y THEN y ELSE BaseRegs[r]]

\* A VM in the middle of a run of a release or debug build without --debug:
\* the ROM loaded, the setup of VM::run done, and the registers, the index
\* register and the frame buffer as earlier instructions (6XNN, ANNN, FX1E,
\* DXYN) and the last flush left them, and the hold timers of the keys that
\* are down as Keypad::cycle left them 7 frames after their press
Prepared(t, debug_assertions) ==
  [VMNew(RomBytes(t.rom), t.legacy_mode, FALSE, debug_assertions, 42) EXCEPT
     !.regs = t.regs,
     !.index = t.index,
     !.display = [frame_buffer |-> t.fb, drawn |-> t.fb],
     !.keypad.key_states =
        [k \in 0..(NUM_KEYS - 1) |-> IF k \in t.pressed THEN KEY_TIMEOUT - 7 ELSE 0],
     !.beeper = "paused"]

\* A program fragment at 0x200 and the state it is run from (no key down),
\* and the same with keys down
Test(rom, regs, index, fb, legacy_mode) ==
  [rom |-> rom, regs |-> regs, index |-> index, fb |-> fb,
   legacy_mode |-> legacy_mode, pressed |-> {}]
TestWithKeys(t, pressed) == [t EXCEPT !.pressed = pressed]

\* 1NNN, 2NNN and BNNN with targets below, at and above ROM_START_ADDR and
\* at the end of memory; register 0 is what BNNN adds
JumpTargets == {0, 80, 511, 512, 4094, 4095}
JumpTests ==
  { Test(<< Op(n1, 0, 0, 0) + nnn >>, RegsWith(0, v0, 0, v0), 0, {}, FALSE) :
      n1 \in {1, 2, 11}, nnn \in JumpTargets, v0 \in {0, 1, 255} }

\* The instructions that address memory through the index register, run with
\* the index register set near the end of memory by ANNN and FX1E
\* (I = NNN + V1), and FX55 / FX65 in sequence (the index register moves on
\* in legacy mode only), and a DXYN whose sprite starts in the last two
\* bytes of memory, which an FX55 has filled
IndexedInstrs == { \hF033, \hF055, \hF255, \hFF55, \hF065, \hF265, \hFF65, \hD235 }
MemTests ==
  { Test(<< \hA000 + nnn, \hF11E, instr >>, RegsWith(1, v1, 3, v3), 0, {}, FALSE) :
      nnn \in {\hFFC, \hFFE}, v1 \in {0, 1, 2, 255}, v3 \in {0, 30},
      instr \in IndexedInstrs }
  \cup
  { Test(<< \hAFF0, \hF755, \hF765, \hF755 >>, BaseRegs, 0, {}, legacy_mode) :
      legacy_mode \in BOOLEAN }
  \cup
  { Test(<< \hAFF0, \hFF55, \hAFFE, \hD235 >>, BaseRegs, 0, {}, FALSE) }

\* Opcodes that no row of the instruction table matches
UnknownOpcodes ==
  { \h0000, \h0123, \h00E1, \h00FE, \h5011, \h501F, \h9011, \h9A1E,
    \h8018, \h8019, \h801A, \h801B, \h801C, \h801D, \h801F,
    \hE000, \hE09F, \hE1A2, \hF000, \hF108, \hF166, \hF1FF }
UnknownTests ==
  { Test(<< op >>, RegsWith(0, v, 1, w), 768, {}, FALSE) :
      op \in UnknownOpcodes, v \in {0, 1, 128}, w \in {0, 1, 128} }

\* FX29 pointing the index register at a glyph, then FX33 or FX55; FX33 with
\* the index register as VM::new leaves it
FontTests ==
  { Test(rom, RegsWith(0, glyph, 1, v), 0, {}, FALSE) :
      rom \in { << \hF029, \hF133 >>, << \hF029, \hF155 >>, << \hF133 >> },
      glyph \in {0, 1, 15}, v \in {7, 254} }

\* 8XY4, 8XY5, 8XY7 and the shifts 8XY6, 8XYE (these in both modes)
AluTests ==
  { Test(<< Op(8, XY[1], XY[2], k) >>, RegsWith(XY[1], x, XY[2], y), 0, {}, FALSE) :
      XY \in RegPairs, x \in Vals, y \in Vals, k \in {4, 5, 7} }
  \cup
  { Test(<< Op(8, XY[1], XY[2], k) >>, RegsWith(XY[1], x, XY[2], y), 0, {},
         legacy_mode) :
      XY \in RegPairs, x \in Vals, y \in Vals, k \in {6, 14},
      legacy_mode \in BOOLEAN }

\* 7XNN
AddTests ==
  { Test(<< Op(7, X, 0, 0) + nn >>, RegsWith(X, a, X, a), 0, {}, FALSE) :
      X \in RegIndices, a \in Vals, nn \in Vals }

\* FX55, ANNN setting the index register to what it was, FX65
RoundTripTests ==
  UNION { { Test(<< Op(15, X, 5, 5), \hA000 + i, Op(15, X, 6, 5) >>, regs, i, {},
                 legacy_mode) :
              i \in {768, MEM_SIZE - 1 - X}, legacy_mode \in BOOLEAN,
              regs \in { BaseRegs, [r \in 0..(NUM_REGS - 1) |-> r + 1] } } :
          X \in {0, 1, 7, 15} }

\* The same DXYN twice: on an empty and on a drawn-on frame buffer, with
\* sprites from the font table and from the program's own bytes, at
\* coordinates that wrap and that clip at the right and bottom edges
SomePixels ==
  { <<0, 0>>, <<0, 3>>, <<1, 0>>, <<4, 2>>, <<0, 5>>, <<30, 5>>, <<29, 60>>, <<31, 63>> }
DrawTests ==
  { Test(<< Op(13, XY[1], XY[2], n), Op(13, XY[1], XY[2], n) >>,
         RegsWith(XY[1], x, XY[2], y), index, fb, FALSE) :
      XY \in { <<0, 1>>, <<1, 1>>, <<15, 1>> }, x \in {0, 60, 69}, y \in {0, 29, 63},
      n \in {1, 5, 15}, index \in {0, 512}, fb \in { {}, SomePixels } }

\* The same DXYN twice on a frame buffer that shows glyph 0 at (0, 0), as a
\* D015 with the index register at 0 leaves it, drawn over and next to it;
\* sprites of no rows
Glyph0Pixels ==
  { <<0, 0>>, <<0, 1>>, <<0, 2>>, <<0, 3>>, <<1, 0>>, <<1, 3>>, <<2, 0>>, <<2, 3>>,
    <<3, 0>>, <<3, 3>>, <<4, 0>>, <<4, 1>>, <<4, 2>>, <<4, 3>> }
RedrawTests ==
  { Test(<< Op(13, 0, 1, n), Op(13, 0, 1, n) >>, RegsWith(0, x, 1, y), index, fb,
         FALSE) :
      x \in {0, 2, 64}, y \in {0, 3}, n \in {0, 1, 5}, index \in {0, 512},
      fb \in { {}, Glyph0Pixels } }

\* One or more instructions of every row of the instruction table, the
\* skips both taken and not taken (register 0 is 5 or 10, register 1 is 5,
\* key 5 is down or not), in both modes, on a drawn-on frame buffer
TableOpcodes ==
  { \h00E0, \h00EE, \h1300, \h2300, \h3005, \h4005, \h5010, \h600A, \h70FF,
    \h8010, \h8011, \h8012, \h8013, \h8014, \h8015, \h8016, \h8017, \h801E,
    \h9010, \hA123, \hB300, \hC0FF, \hD015, \hE09E, \hE0A1,
    \hF007, \hF00A, \hF015, \hF018, \hF01E, \hF029, \hF033, \hF155, \hF165 }
TableTests ==
  { TestWithKeys(Test(<< op, \h6B01 >>, RegsWith(0, v0, 1, 5), 768, SomePixels,
                      legacy_mode), pressed) :
      op \in TableOpcodes, v0 \in {5, 10}, legacy_mode \in BOOLEAN,
      pressed \in { {}, {5} } }

\* FX29 on glyph numbers within and past 0xF: the last ones whose product
\* with 5 fits a byte, the first that does not, and the largest
GlyphNumbers == {0, 1, 9, 15, 16, 51, 52, 255}
GlyphTests ==
  { Test(<< Op(15, X, 2, 9) >>, RegsWith(X, v, X, v), 768, {}, FALSE) :
      X \in RegIndices, v \in GlyphNumbers }

\* 8XY1, 8XY2, 8XY3 with the flag register as X, as Y, as both and as neither
LogicTests ==
  { Test(<< Op(8, XY[1], XY[2], k) >>, RegsWith(XY[1], x, XY[2], y), 0, {}, FALSE) :
      XY \in RegPairs, x \in {1, 3, 5, 255}, y \in {1, 3, 5, 255}, k \in {1, 2, 3} }

InstrTests ==
  JumpTests \cup MemTests \cup UnknownTests \cup FontTests \cup AluTests
    \cup AddTests \cup RoundTripTests \cup DrawTests \cup RedrawTests
    \cup TableTests \cup GlyphTests \cup LogicTests

\* The for loop of one frame of VM::run, entered with the VM prepared by one
\* of the tests
InitInstr ==
  /\ \E t \in InstrTests, debug_assertions \in BOOLEAN :
       vm = Prepared(t, debug_assertions)
  /\ keyboard = {}
  /\ phase = "instr"
  /\ instr_i = 0
  /\ frame_log = << >>
  /\ timer_set = [delay |-> [n |-> 0, k |-> 0], sound |-> [n |-> 0, k |-> 0]]
  /\ wait_seen = {}
  /\ key_age = [key \in 0..(NUM_KEYS - 1) |-> 16]
  /\ ctrl_c_read = FALSE
  /\ calls = << >>
  /\ origin = Origin(vm)

SpecInstr == InitInstr /\ [][LoopBody]_vars

(* ------------------------------ the claims ----------------------------- *)

\* The calls of a frame other than the draws print_state makes
RunCalls(log) == SelectSeq(log, LAMBDA e : e # << "draw", 1 >>)

\* calls is the start of: cycle, 10 times exec_instr, decrement_timers, and
\* then at most the flush
IsFramePrefix(calls_) ==
  /\ Len(calls_) <= 13
  /\ \A i \in 1..Len(calls_) :
       calls_[i][1] = (IF i = 1 THEN "cycle"
                       ELSE IF i <= 11 THEN "exec_instr"
                       ELSE IF i = 12 THEN "decrement_timers"
                       ELSE "draw")

\* C1: in every iteration of the loop of VM::run the calls are, in this order,
\* keypad.cycle() once, exec_instr exactly 10 times, decrement_timers once and
\* then at most the flush; at the end of the iteration all of them up to
\* decrement_timers have been made.  Frames spent waiting in FX0A are no
\* exception: each retry is one of the 10 instructions.
C1_FrameOrder ==
  /\ phase \in {"instr", "decrement_timers", "draw", "sleep", "loop_test",
                "exited", "panicked"} => IsFramePrefix(RunCalls(frame_log))
  /\ phase = "decrement_timers" => Len(RunCalls(frame_log)) = 11
  /\ phase = "draw" => Len(RunCalls(frame_log)) = 12
  /\ phase = "sleep" => Len(RunCalls(frame_log)) \in {12, 13}

\* A frame ends in which all 10 instructions were retries of the FX0A at
\* 0x214, the program still waits there, and the delay timer set to 5 has
\* gone down to 2
C1_Witness ==
  /\ phase = "sleep"
  /\ \A i \in 2..11 : RunCalls(frame_log)[i] = << "exec_instr", \hF20A >>
  /\ vm.pc = \h214
  /\ vm.delay_timer = 2

Max0(x) == IF x > 0 THEN x ELSE 0

\* C2: each tick takes 1 off a nonzero timer and leaves a zero timer at 0: k
\* ticks after FX15 (FX18) set the delay (sound) timer to n, with no FX15
\* (FX18) since, the timer reads max(0, n - k); it never wraps below 0.
C2_TimersCountDown ==
  /\ timer_set.delay.k < MaxTicks =>
       vm.delay_timer = Max0(timer_set.delay.n - timer_set.delay.k)
  /\ timer_set.sound.k < MaxTicks =>
       vm.sound_timer = Max0(timer_set.sound.n - timer_set.sound.k)
  /\ timer_set.delay.n <= MaxTicks /\ timer_set.delay.k = MaxTicks =>
       vm.delay_timer = 0
  /\ timer_set.sound.n <= MaxTicks /\ timer_set.sound.k = MaxTicks =>
       vm.sound_timer = 0

\* FX15 set the delay timer to 5 and six ticks have passed: it reads 0
C2_Witness ==
  /\ timer_set.delay = [n |-> 5, k |-> 6]
  /\ vm.delay_timer = 0
  /\ vm.opcode = \h1208

\* C3 (as claimed): at the end of every frame the tone plays if and only if
\* the sound timer is nonzero, also after an FX18 that wrote 0 while the tone
\* was playing.
C3_BeepIffSoundTimer ==
  phase = "sleep" => (vm.beeper = "playing" <=> vm.sound_timer > 0)

HasCall(log, call) == \E i \in 1..Len(log) : log[i] = call

\* C4 (as claimed): the frame in which 00E0 executed ends with a flush of the
\* cleared buffer, and the dirty flag is set whenever the frame buffer differs
\* from what was last flushed.
C4_ClearMarksDirty ==
  /\ phase = "sleep" /\ HasCall(frame_log, << "exec_instr", 224 >>) =>
       /\ HasCall(frame_log, << "draw", 0 >>)
       /\ vm.display.drawn = {}
  /\ vm.display.frame_buffer # vm.display.drawn => vm.should_draw

\* The places of the calls of Display::draw in a frame's log
DrawCalls(log) == { i \in 1..Len(log) : log[i][1] = "draw" }

\* The 10 instructions and the timer decrement of the frame come before call i
AfterInstrsAndTimers(log, i) ==
  /\ Cardinality({ j \in 1..(i - 1) : log[j][1] = "exec_instr" }) = 10
  /\ \E j \in 1..(i - 1) : log[j][1] = "decrement_timers"

\* C5 (as claimed): Display::draw is called at most once per frame, and only
\* after the 10 instructions and the timer decrement of the frame.
C5_DrawOncePerFrame ==
  /\ Cardinality(DrawCalls(frame_log)) <= 1
  /\ \A i \in DrawCalls(frame_log) : AfterInstrsAndTimers(frame_log, i)

\* The step of VM::run after decrement_timers: with should_draw set it is
\* one call of Display::draw that leaves the flag false, without it no call
FlushStep ==
  phase = "draw" =>
    IF vm.should_draw
      THEN /\ frame_log' = Append(frame_log, << "draw", 0 >>)
           /\ vm'.display.drawn = vm.display.frame_buffer
           /\ ~vm'.should_draw
    ELSE /\ frame_log' = frame_log
         /\ vm'.display.drawn = vm.display.drawn
         /\ ~vm'.should_draw

\* C5 (amended): in a frame in which print_state draws nothing (step-through
\* debug mode is off, as always in a release build) Display::draw is called
\* at most once, only after the 10 instructions and the timer decrement, and
\* only when should_draw is set; the flag is false after the flush and a
\* frame in which it is not set makes no flush.
C5_FlushOncePerFrame ==
  /\ [](~HasCall(frame_log, << "draw", 1 >>) => C5_DrawOncePerFrame)
  /\ [][FlushStep]_vars

\* A frame without step-through draws ends after its one flush; the frame
\* drew the same sprite three times
C5_Witness ==
  /\ phase = "sleep"
  /\ ~HasCall(frame_log, << "draw", 1 >>)
  /\ DrawCalls(frame_log) = {13}
  /\ Cardinality({ j \in 1..Len(frame_log) : frame_log[j] = << "exec_instr", \hD015 >> }) = 3
  /\ ~vm.should_draw

\* The step that executes an FX0A fetched at vm.pc, and does not panic
FX0AStep ==
  /\ phase = "instr"
  /\ Fetches(vm)
  /\ IsFX(FetchedOp(vm), 10)
  /\ ~vm'.panicked

Untouched(fields) ==
  /\ vm'.mem = vm.mem
  /\ vm'.stack = vm.stack
  /\ vm'.index = vm.index
  /\ vm'.delay_timer = vm.delay_timer
  /\ vm'.sound_timer = vm.sound_timer
  /\ vm'.display = vm.display
  /\ vm'.regs = fields

\* C6: an FX0A either rewinds (the program counter is again the address of
\* the FX0A; registers, memory, stack and index are unchanged), or it stores
\* a key K in register X and goes on to the next instruction; then an earlier
\* FX0A of this wait saw K's hold timer at 16, at least 16 frames ago, and
\* K's hold timer is 0 now.
C6_KeyWait ==
  [][FX0AStep =>
       \/ /\ vm'.pc = vm.pc
          /\ Untouched(vm.regs)
       \/ /\ vm'.pc = vm.pc + 2
          /\ \E K \in 0..15 :
               /\ Untouched([vm.regs EXCEPT ![OpX(FetchedOp(vm))] = K])
               /\ vm.keypad.key_states[K] = 0
               /\ \E p \in wait_seen : p[1] = K /\ p[2] >= 16]_vars

\* The wait at 0x214 has ended with key 10 in V2 while key 1, pressed later,
\* is still held
C6_Witness ==
  /\ vm.opcode = \hF20A
  /\ vm.pc = \h216
  /\ vm.regs[2] = 10
  /\ vm.keypad.key_states[1] \in 1..15
  /\ vm.keypad.key_states[10] = 0

\* C7: a key is pressed (is_key_pressed) exactly during the 16 frames that
\* start with the frame in which Keypad::cycle observed its press, and a press
\* observed while the key is held does not extend that; every hold timer is
\* in 0..16 and at most one key has hold timer 16.
C7_KeyWindow ==
  /\ \A key \in 0..15 :
       /\ is_key_pressed(vm.keypad, key) <=> key_age[key] <= 15
       /\ vm.keypad.key_states[key] \in 0..16
  /\ Cardinality({ key \in 0..15 : vm.keypad.key_states[key] = 16 }) <= 1

\* Key 1 is in the last frame of its window and key 10 has just been pressed
C7_Witness ==
  /\ phase = "instr"
  /\ key_age[1] = 15
  /\ vm.keypad.key_states[1] = 1
  /\ vm.keypad.key_states[10] = 16

\* C8: the loop is left only after Keypad::cycle has read Ctrl-C; the frame
\* that read it still makes all its calls (cycle, 10 instructions, the timer
\* decrement, the flush when the buffer is dirty), and no further frame is
\* started.
C8_Cancellation ==
  /\ phase = "exited" => ctrl_c_read
  /\ ctrl_c_read => phase # "cycle"
  /\ ctrl_c_read /\ phase \in {"sleep", "loop_test", "exited"} =>
       /\ IsFramePrefix(RunCalls(frame_log))
       /\ Len(RunCalls(frame_log)) \in {12, 13}
       /\ ~vm.should_draw
       /\ vm.display.drawn = vm.display.frame_buffer \/ ~HasCall(frame_log, << "draw", 0 >>)

\* The loop has been left after a frame that read Ctrl-C, ran its 10
\* instructions (three of them draws) and flushed
C8_Witness ==
  /\ phase = "exited"
  /\ ctrl_c_read
  /\ frame_log[Len(frame_log)] = << "draw", 0 >>
  /\ frame_log[2] = << "exec_instr", \hD015 >>
  /\ Len(frame_log) = 13

\* The step that executes the instruction fetched at vm.pc
ExecStep == phase = "instr" /\ Fetches(vm)

\* C9: a 2NNN fetched at A pushes A + 2 and sets the program counter to NNN;
\* a 00EE sets the program counter to the return address of the most recent
\* call not yet returned from and takes one off the stack depth, so that the
\* depth is always the number of calls not yet returned from; with only 600
\* on the stack 00EE gives program counter 600 and an empty stack.  (Calls
\* and returns that stop the program are C10's and C11's.)
C9_CallReturn ==
  /\ [](vm.stack.ptr = Len(calls))
  /\ [][ExecStep /\ ~vm'.panicked =>
          /\ Is2NNN(FetchedOp(vm)) =>
               /\ vm'.stack.ptr = vm.stack.ptr + 1
               /\ vm'.stack.mem[vm.stack.ptr] = vm.pc + 2
               /\ vm'.pc = OpNNN(FetchedOp(vm))
          /\ Is00EE(FetchedOp(vm)) =>
               /\ Len(calls) > 0
               /\ vm'.pc = calls[Len(calls)]
               /\ vm'.stack.ptr = vm.stack.ptr - 1
          /\ Is00EE(FetchedOp(vm)) /\ vm.stack.ptr = 1 /\ vm.stack.mem[0] = 600 =>
               /\ vm'.pc = 600
               /\ vm'.stack.ptr = 0]_vars

\* After 12 nested calls and 12 returns the last 00EE, with only 600 on the
\* stack, has given program counter 600 and an empty stack
C9_Witness ==
  /\ vm.opcode = 238
  /\ vm.pc = 600
  /\ vm.stack.ptr = 0
  /\ vm.stack.mem[0] = 600
  /\ vm.stack.mem[11] # 0
  /\ calls = << >>

\* C10: the stack depth is within 0..12 in every state; a 2NNN with 12
\* entries on the stack and a 00EE with none stop the program, and leave the
\* stack slots and the stack pointer as they were, and 00EE stores no return
\* address in the program counter.
C10_StackBounded ==
  /\ [](vm.stack.ptr \in 0..12)
  /\ [](phase = "panicked" <=> vm.panicked)
  /\ [][ExecStep =>
          /\ Is2NNN(FetchedOp(vm)) /\ vm.stack.ptr = 12 =>
               /\ phase' = "panicked"
               /\ vm'.stack = vm.stack
          /\ Is00EE(FetchedOp(vm)) /\ vm.stack.ptr = 0 =>
               /\ phase' = "panicked"
               /\ vm'.stack = vm.stack
               /\ vm'.pc = vm.pc + 2]_vars

\* The 13th nested call has stopped the program with 12 entries on the stack
C10_Witness ==
  /\ phase = "panicked"
  /\ Is2NNN(vm.opcode)
  /\ vm.stack.ptr = 12
  /\ vm.stack.mem[11] = \h202

\* The last call of exec_instr fetched and dispatched opcode op
Executed(op) ==
  /\ frame_log # << >>
  /\ frame_log[Len(frame_log)] = << "exec_instr", op >>
  /\ vm.opcode = op

\* C11 (as claimed): whenever an instruction is about to be fetched the
\* program counter is at least 512, because every 1NNN, 2NNN and BNNN with a
\* target outside [512, 4096) stops the program in every build.
C11_JumpTargetsChecked == phase = "instr" => vm.pc >= ROM_START_ADDR

\* The number of sprite rows the DXYN op reads in state m (rows below the
\* bottom edge are not read)
RowsRead(m, op) ==
  LET y_coord == m.regs[OpY(op)] % DISPLAY_HEIGHT
  IN  Min(DISPLAY_HEIGHT, y_coord + OpN(op)) - y_coord

\* The instruction fetched in state m is a DXYN that reads a row, an FX33, an
\* FX55 or an FX65, and the highest address it accesses
IsIndexed(m) ==
  LET op == FetchedOp(m)
  IN  \/ IsFX(op, \h33) \/ IsFX(op, \h55) \/ IsFX(op, \h65)
      \/ (op \div 4096 = 13 /\ RowsRead(m, op) > 0)

LastAccessed(m) ==
  LET op == FetchedOp(m)
  IN  IF IsFX(op, \h33) THEN m.index + 2
      ELSE IF op \div 4096 = 13 THEN m.index + RowsRead(m, op) - 1
      ELSE m.index + OpX(op)

\* C12: a fetch with pc + 1 >= 4096 stops the program and changes nothing;
\* a DXYN row read, an FX33 write and an FX55 / FX65 copy that reaches an
\* address >= 4096 stops the program, with the index register as it was and
\* no byte below the index register written (no access wraps around); FX55
\* then writes no byte at all and FX65 no register.  An access within the
\* 4096 bytes does not stop the program.
C12_MemoryBounds ==
  [][phase = "instr" =>
       /\ ~Fetches(vm) =>
            /\ vm'.panicked
            /\ vm'.pc = vm.pc
            /\ Untouched(vm.regs)
       /\ Fetches(vm) /\ IsIndexed(vm) /\ LastAccessed(vm) >= MEM_SIZE =>
            /\ vm'.panicked
            /\ vm'.index = vm.index
            /\ \A a \in 0..(MEM_SIZE - 1) : a < vm.index => vm'.mem[a] = vm.mem[a]
            /\ IsFX(FetchedOp(vm), \h55) => vm'.mem = vm.mem
            /\ IsFX(FetchedOp(vm), \h65) => vm'.regs = vm.regs
       /\ Fetches(vm) /\ IsIndexed(vm) /\ LastAccessed(vm) < MEM_SIZE =>
            ~vm'.panicked]_vars

\* A release build has stopped in an FX33 with the index register at 4095,
\* after the write of the hundreds digit of 255 to the last byte of memory
C12_Witness ==
  /\ phase = "panicked"
  /\ Executed(\hF033)
  /\ vm.index = MEM_SIZE - 1
  /\ ~vm.debug_assertions
  /\ vm.mem[MEM_SIZE - 1] = 2

\* The opcode matches no row of the instruction table: 0NNN other than 00E0
\* and 00EE, 5XYN and 9XYN with N # 0, 8XYN with N in 8..D or F, EXNN other
\* than EX9E and EXA1, FXNN other than the nine FX instructions
IsUnknown(op) ==
  LET n1 == op \div 4096
  IN  \/ n1 = 0 /\ op \notin {\h00E0, \h00EE}
      \/ n1 \in {5, 9} /\ OpN(op) # 0
      \/ n1 = 8 /\ OpN(op) \in {8, 9, 10, 11, 12, 13, 15}
      \/ n1 = 14 /\ OpNN(op) \notin {\h9E, \hA1}
      \/ n1 = 15 /\ OpNN(op) \notin {\h07, \h0A, \h15, \h18, \h1E, \h29, \h33, \h55, \h65}

\* C13 (as claimed): an opcode that matches no row of the instruction table
\* stops the program when it is executed.
C13_UnknownOpcodeStops ==
  frame_log # << >> /\ Executed(vm.opcode) /\ IsUnknown(vm.opcode) => vm.panicked

\* C14 (as claimed): in every state the memory bytes [0, 80) equal the FONTS
\* table.
C14_FontImmutable == \A a \in 0..(Len(FONTS) - 1) : vm.mem[a] = FONTS[a + 1]

\* The first instruction of the run was 8XYn, for some X and Y, and has been
\* executed
First8XY(n) ==
  /\ Len(frame_log) = 1
  /\ Executed(vm.opcode)
  /\ vm.opcode \div 4096 = 8
  /\ OpN(vm.opcode) = n
  /\ ~vm.panicked

\* C15 (as claimed): after 8XY4 on values x and y the flag register is 1 if
\* x + y > 255 and 0 otherwise, and register X (when it is not the flag
\* register) is (x + y) mod 256, also when X = Y.
C15_AddCarry ==
  First8XY(4) =>
    LET X == OpX(vm.opcode)
        x == origin.regs[X]
        y == origin.regs[OpY(vm.opcode)]
    IN  /\ vm.regs[15] = AsU8(x + y > 255)
        /\ X # 15 => vm.regs[X] = (x + y) % 256

\* C16 (as claimed): after 8XY5 the flag register is 1 if x >= y and 0
\* otherwise and register X is (x - y) mod 256; after 8XY7 the flag register
\* is 1 if y >= x and 0 otherwise and register X is (y - x) mod 256 (register
\* X when it is not the flag register), also when X = Y.
C16_SubNoBorrow ==
  LET X == OpX(vm.opcode)
      x == origin.regs[X]
      y == origin.regs[OpY(vm.opcode)]
  IN  /\ First8XY(5) =>
           /\ vm.regs[15] = AsU8(x >= y)
           /\ X # 15 => vm.regs[X] = (x - y) % 256
      /\ First8XY(7) =>
           /\ vm.regs[15] = AsU8(y >= x)
           /\ X # 15 => vm.regs[X] = (y - x) % 256

C18_ShiftQuirk ==
  \A n \in {6, 14} :
    First8XY(n) =>
      LET X == OpX(vm.opcode)
          x == origin.regs[X]
          y == origin.regs[OpY(vm.opcode)]
          s_ == IF vm.legacy_mode THEN y ELSE x
      IN  /\ vm.regs[15] = (IF n = 6 THEN s_ % 2 ELSE s_ \div 128)
          /\ X # 15 => vm.regs[X] = (IF n = 6 THEN s_ \div 2 ELSE (2 * s_) % 256)
          /\ \A r \in 0..(NUM_REGS - 1) :
               r \notin {X, 15} => vm.regs[r] = origin.regs[r]

\* Legacy mode, 8016 with register 0 = 128 and register 1 = 5: register 0
\* holds 5 >> 1 = 2, the flag register the bit shifted out, register 1 still 5
C18_Witness ==
  /\ First8XY(6)
  /\ vm.opcode = \h8016
  /\ vm.legacy_mode
  /\ origin.regs[0] = 128
  /\ origin.regs[1] = 5
  /\ vm.regs[0] = 2
  /\ vm.regs[15] = 1
  /\ vm.regs[1] = 5

\* C19: FX55 run with index register I, I + X < 4096, stores registers 0..X
\* at I..I+X and changes no register; after ANNN has set the index register
\* to I again, FX65 leaves every register with the value it had before the
\* FX55.  After each of the two the index register is I + X + 1 in legacy
\* mode and I otherwise.
C19_StoreLoadRoundTrip ==
  \A X \in 0..(NUM_REGS - 1) :
    LET I == origin.index
        after == IF vm.legacy_mode THEN I + X + 1 ELSE I
    IN  /\ Len(frame_log) = 1 /\ Executed(Op(15, X, 5, 5)) /\ I + X < MEM_SIZE =>
             /\ ~vm.panicked
             /\ vm.index = after
             /\ vm.regs = origin.regs
             /\ \A r \in 0..X : vm.mem[I + r] = origin.regs[r]
        /\ /\ Len(frame_log) = 3
           /\ frame_log[1] = << "exec_instr", Op(15, X, 5, 5) >>
           /\ frame_log[2] = << "exec_instr", \hA000 + I >>
           /\ Executed(Op(15, X, 6, 5))
           /\ I + X < MEM_SIZE
           => /\ ~vm.panicked
              /\ vm.index = after
              /\ vm.regs = origin.regs

\* Legacy mode: FF55 with the index register at 4080, AFF0, FF65: the 16
\* registers are as before, their values are in the last 16 bytes of memory
\* and the index register is 4096
C19_Witness ==
  /\ Len(frame_log) = 3
  /\ frame_log[1] = << "exec_instr", \hFF55 >>
  /\ Executed(\hFF65)
  /\ vm.legacy_mode
  /\ origin.index = 4080
  /\ vm.index = 4096
  /\ vm.regs = origin.regs
  /\ \A r \in 0..15 : vm.mem[4080 + r] = origin.regs[r] /\ origin.regs[r] # 0

\* C20: a DXYN executed right after the same DXYN, with the index register
\* and registers X and Y as they were for the first, leaves the frame buffer
\* as it was before the first.
C20_DrawTwice ==
  [][/\ phase = "instr"
     /\ Fetches(vm)
     /\ FetchedOp(vm) \div 4096 = 13
     /\ Len(frame_log) = 1
     /\ Executed(FetchedOp(vm))
     /\ vm.index = origin.index
     /\ vm.regs[OpX(FetchedOp(vm))] = origin.regs[OpX(FetchedOp(vm))]
     /\ vm.regs[OpY(FetchedOp(vm))] = origin.regs[OpY(FetchedOp(vm))]
     /\ vm.mem = vm'.mem
     /\ ~vm'.panicked
     => vm'.display.frame_buffer = origin.frame_buffer]_vars

\* Glyph 0 drawn twice at (60, 29), clipped at the bottom edge, on a frame
\* buffer that had pixels on under it: the buffer is as it was, and the
\* second draw switched pixels off
C20_Witness ==
  /\ Len(frame_log) = 2
  /\ frame_log[1] = << "exec_instr", \hD015 >>
  /\ Executed(\hD015)
  /\ origin.index = 0
  /\ origin.regs[0] = 60
  /\ origin.regs[1] = 29
  /\ origin.frame_buffer = SomePixels
  /\ vm.display.frame_buffer = SomePixels
  /\ vm.regs[15] = 1

\* The step that executes a DXYN fetched at vm.pc, and does not panic
DrawStep ==
  /\ phase = "instr"
  /\ Fetches(vm)
  /\ FetchedOp(vm) \div 4096 = 13
  /\ ~vm'.panicked

\* The DXYN about to be executed is the instruction the run started with,
\* and the index register and registers X and Y are as they were for it
SecondDraw ==
  /\ Len(frame_log) = 1
  /\ Executed(FetchedOp(vm))
  /\ vm.index = origin.index
  /\ vm.regs[OpX(FetchedOp(vm))] = origin.regs[OpX(FetchedOp(vm))]
  /\ vm.regs[OpY(FetchedOp(vm))] = origin.regs[OpY(FetchedOp(vm))]

\* C21 (amended): after any DXYN the flag register is 1 if at least one pixel
\* that was on before the instruction is off after it and 0 otherwise,
\* whatever it held before; the second of two equal draws sets the flag
\* register to 1 when the first draw switched at least one pixel on, and to 0
\* when it switched none on.
C21_CollisionFlag ==
  [][DrawStep =>
       /\ vm'.regs[15] =
            AsU8(vm.display.frame_buffer \ vm'.display.frame_buffer # {})
       /\ SecondDraw =>
            vm'.regs[15] =
              AsU8(vm.display.frame_buffer \ origin.frame_buffer # {})]_vars

\* Glyph 0 drawn twice at (5, 31) on an empty frame buffer, clipped to its
\* first row: the second draw has switched the four pixels off again and
\* set the flag register, which held 15 before the first draw
C21_Witness ==
  /\ Len(frame_log) = 2
  /\ frame_log[1] = << "exec_instr", \hD015 >>
  /\ Executed(\hD015)
  /\ origin.index = 0
  /\ origin.regs[0] = 69
  /\ origin.regs[1] = 63
  /\ origin.regs[15] = 15
  /\ origin.frame_buffer = {}
  /\ vm.display.frame_buffer = {}
  /\ vm.regs[15] = 1

\* C21 (as claimed): the second of two equal draws at the same location
\* leaves 1 in the flag register.
C21_SecondDrawSetsFlag ==
  /\ Len(frame_log) = 2
  /\ frame_log[1] = frame_log[2]
  /\ Executed(vm.opcode)
  /\ vm.opcode \div 4096 = 13
  /\ vm.index = origin.index
  /\ (vm.regs[OpX(vm.opcode)] % DISPLAY_WIDTH) = (origin.regs[OpX(vm.opcode)] % DISPLAY_WIDTH)
  /\ (vm.regs[OpY(vm.opcode)] % DISPLAY_HEIGHT) = (origin.regs[OpY(vm.opcode)] % DISPLAY_HEIGHT)
  /\ ~vm.panicked
  => vm.regs[15] = 1

\* The sprite bit that DXYN, fetched in state m, lays on the pixel at
\* (row, col): 0 outside the clipped rectangle of the sprite
SpriteBit(m, row, col) ==
  LET op == FetchedOp(m)
      x0 == m.regs[OpX(op)] % DISPLAY_WIDTH
      y0 == m.regs[OpY(op)] % DISPLAY_HEIGHT
  IN  IF /\ row >= y0 /\ row < Min(DISPLAY_HEIGHT, y0 + OpN(op))
         /\ col >= x0 /\ col < Min(DISPLAY_WIDTH, x0 + SPRITE_WIDTH)
        THEN Bit(m.mem[m.index + (row - y0)], 7 - (col - x0))
      ELSE 0

\* The pixels whose state differs between two frame buffers
Toggled(fb1, fb2) == (fb1 \ fb2) \cup (fb2 \ fb1)

\* C22: a DXYN that runs to its end toggles exactly the pixels (y0 + r,
\* x0 + c) of the rectangle rows [y0, min(32, y0 + N)), columns [x0,
\* min(64, x0 + 8)) for which bit 7 - c of memory byte index + r is 1, where
\* x0 = register X mod 64 and y0 = register Y mod 32; one stopped by a row
\* read past the memory changes no pixel outside that rectangle; an
\* instruction other than DXYN and 00E0 leaves the frame buffer as it was.
C22_DrawClips ==
  [][phase = "instr" /\ Fetches(vm) =>
       LET op == FetchedOp(vm)
           x0 == vm.regs[OpX(op)] % DISPLAY_WIDTH
           y0 == vm.regs[OpY(op)] % DISPLAY_HEIGHT
           changed == Toggled(vm.display.frame_buffer, vm'.display.frame_buffer)
       IN  /\ op \div 4096 = 13 =>
                \A p \in changed :
                  /\ p[1] >= y0 /\ p[1] < Min(DISPLAY_HEIGHT, y0 + OpN(op))
                  /\ p[2] >= x0 /\ p[2] < Min(DISPLAY_WIDTH, x0 + SPRITE_WIDTH)
           /\ op \div 4096 = 13 /\ ~vm'.panicked =>
                \A row \in 0..(DISPLAY_HEIGHT - 1), col \in 0..(DISPLAY_WIDTH - 1) :
                  << row, col >> \in changed <=> SpriteBit(vm, row, col) = 1
           /\ op \div 4096 # 13 /\ ~Is00E0(op) => changed = {}]_vars

\* Glyph 0 drawn at (60, 29) on a frame buffer with pixels on: of its 5 rows
\* of 4 on-bits in the left half the 3 rows 29..31 and the columns 60..63 are
\* drawn, nothing appears in row 0 or column 0, and the pixels that were on
\* at (29, 60) and (31, 63) are off
C22_Witness ==
  /\ Len(frame_log) = 1
  /\ Executed(\hD015)
  /\ origin.index = 0
  /\ origin.regs[0] = 60
  /\ origin.regs[1] = 29
  /\ origin.frame_buffer = SomePixels
  /\ vm.display.frame_buffer =
       (SomePixels \ { <<29, 60>>, <<31, 63>> })
         \cup { <<29, 61>>, <<29, 62>>, <<29, 63>>, <<30, 60>>, <<30, 63>>,
                <<31, 60>> }

\* The same VM built with the other value of legacy_mode
OtherMode(m) == [m EXCEPT !.legacy_mode = ~m.legacy_mode]

\* The opcode is 8XY6, 8XYE, FX55 or FX65
IsLegacyOpcode(op) ==
  \/ op \div 4096 = 8 /\ OpN(op) \in {6, 14}
  \/ IsFX(op, \h55)
  \/ IsFX(op, \h65)

\* C23 (as claimed): an instruction other than 8XY6, 8XYE, FX55 and FX65,
\* executed from the same state by a VM in legacy mode and by one that is
\* not, leaves the two in the same state (registers, index register, program
\* counter, memory, stack, timers, frame buffer and everything else but the
\* legacy flag itself).
C23_LegacyFourOnly ==
  [][/\ vm'.legacy_mode = vm.legacy_mode
     /\ phase = "instr" /\ Fetches(vm) /\ ~IsLegacyOpcode(FetchedOp(vm)) =>
          exec_instr(OtherMode(vm)) = OtherMode(vm')]_vars

\* C24 (as claimed): FX29 as the first instruction, with v in register X:
\* when v <= 0xF the program goes on with the index register at 5 * v, the
\* first byte of glyph v; when v > 0xF the program stops and the index
\* register is as it was.
C24_GlyphAddress ==
  Len(frame_log) = 1 /\ Executed(vm.opcode) /\ IsFX(vm.opcode, \h29) =>
    LET v == origin.regs[OpX(vm.opcode)]
    IN  /\ v <= 15 =>
             /\ ~vm.panicked
             /\ vm.index = 5 * v
             /\ \A r \in 0..4 : vm.mem[vm.index + r] = FONTS[5 * v + r + 1]
        /\ v > 15 =>
             /\ vm.panicked
             /\ vm.index = origin.index

\* The opcode is one of the skips 3XNN, 4XNN, 5XY0, 9XY0, EX9E, EXA1, and
\* its condition holds in state m
IsSkip(op) ==
  \/ op \div 4096 \in {3, 4}
  \/ op \div 4096 \in {5, 9} /\ OpN(op) = 0
  \/ op \div 4096 = 14 /\ OpNN(op) \in {\h9E, \hA1}

SkipTaken(m, op) ==
  LET n1 == op \div 4096
      vx == m.regs[OpX(op)]
      vy == m.regs[OpY(op)]
  IN  CASE n1 = 3 -> vx = OpNN(op)
        [] n1 = 4 -> vx # OpNN(op)
        [] n1 = 5 -> vx = vy
        [] n1 = 9 -> vx # vy
        [] OTHER -> /\ vx < NUM_KEYS
                    /\ (OpNN(op) = \h9E) = is_key_pressed(m.keypad, vx)

\* The opcode is a jump, a call, a return or the key wait: 1NNN, 2NNN, BNNN,
\* 00EE, FX0A
IsBranch(op) ==
  \/ op \div 4096 \in {1, 2, 11}
  \/ Is00EE(op)
  \/ IsFX(op, \h0A)

Result8XY(n, x, y, legacy_mode) ==
  LET s_ == IF legacy_mode THEN y ELSE x
  IN  CASE n = 1 -> BitOr(x, y)
        [] n = 2 -> BitAnd(x, y)
        [] n = 3 -> BitXor(x, y)
        [] n = 4 -> (x + y) % 256
        [] n = 5 -> (x - y) % 256
        [] n = 6 -> s_ \div 2
        [] n = 7 -> (y - x) % 256
        [] OTHER -> (2 * s_) % 256

Flag8XY(n, x, y, legacy_mode) ==
  LET s_ == IF legacy_mode THEN y ELSE x
  IN  CASE n \in {1, 2, 3} -> 0
        [] n = 4 -> AsU8(x + y > 255)
        [] n = 5 -> AsU8(x >= y)
        [] n = 6 -> s_ % 2
        [] n = 7 -> AsU8(y >= x)
        [] OTHER -> s_ \div 128

\* C26 (as claimed): after 8XY1..8XY7 and 8XYE on x in register X and y in
\* register Y, when X is the flag register it holds the flag of the
\* operation on x and y and not the result, and when Y is the flag register
\* the result and the flag are those of the operation on x and the value y
\* the flag register held before the instruction.
C26_FlagWrittenLast ==
  \A n \in {1, 2, 3, 4, 5, 6, 7, 14} :
    First8XY(n) =>
      LET X == OpX(vm.opcode)
          Y == OpY(vm.opcode)
          x == origin.regs[X]
          y == origin.regs[Y]
      IN  /\ X = 15 => vm.regs[15] = Flag8XY(n, x, y, vm.legacy_mode)
          /\ Y = 15 =>
               /\ vm.regs[15] = Flag8XY(n, x, y, vm.legacy_mode)
               /\ X # 15 => vm.regs[X] = Result8XY(n, x, y, vm.legacy_mode)
====
